---------------------------- MODULE Spec2Model ----------------------------
(***************************************************************************)
(* Model of the devrewards-platform staking program: the stake and unstake *)
(* instructions, their account validation, the reward arithmetic on 64-bit *)
(* unsigned integers, the vault and the global statistics.                  *)
(*                                                                         *)
(* A u64 is written as the sequence of its base-256 digits, least          *)
(* significant first and without leading zero digits (the bytes of         *)
(* to_le_bytes() with the high zero bytes dropped), so that values above   *)
(* 2^31 and the products of the reward computation are exact.              *)
(***************************************************************************)
EXTENDS Integers, Sequences, FiniteSets, TLC

(***************************************************************************)
(* Unbounded naturals as digit sequences.                                  *)
(***************************************************************************)
RECURSIVE Norm(_)
Norm(s) ==
    IF s = <<>> THEN s
    ELSE IF s[Len(s)] = 0 THEN Norm(SubSeq(s, 1, Len(s) - 1)) ELSE s

RECURSIVE Nat2U(_)
Nat2U(n) == IF n = 0 THEN <<>> ELSE <<n % 256>> \o Nat2U(n \div 256)

Rest(s) == IF s = <<>> THEN <<>> ELSE Tail(s)

Digit0(s) == IF s = <<>> THEN 0 ELSE Head(s)

RECURSIVE AddC(_, _, _)
AddC(a, b, c) ==
    IF a = <<>> /\ b = <<>>
    THEN IF c = 0 THEN <<>> ELSE <<c>>
    ELSE LET t == Digit0(a) + Digit0(b) + c
         IN  <<t % 256>> \o AddC(Rest(a), Rest(b), t \div 256)

Add(a, b) == AddC(a, b, 0)

RECURSIVE LessFrom(_, _, _)
LessFrom(a, b, i) ==
    IF i = 0 THEN FALSE
    ELSE IF a[i] # b[i] THEN a[i] < b[i] ELSE LessFrom(a, b, i - 1)

Less(a, b) ==
    IF Len(a) # Len(b) THEN Len(a) < Len(b) ELSE LessFrom(a, b, Len(a))

Leq(a, b) == ~Less(b, a)

\* a - b for a >= b
RECURSIVE SubB(_, _, _)
SubB(a, b, w) ==
    IF a = <<>> THEN <<>>
    ELSE LET t == Head(a) - Digit0(b) - w
         IN  IF t < 0
             THEN <<t + 256>> \o SubB(Tail(a), Rest(b), 1)
             ELSE <<t>> \o SubB(Tail(a), Rest(b), 0)

Sub(a, b) == Norm(SubB(a, b, 0))

RECURSIVE MulDigit(_, _, _)
MulDigit(a, k, c) ==
    IF a = <<>> THEN (IF c = 0 THEN <<>> ELSE <<c>>)
    ELSE LET t == Head(a) * k + c
         IN  <<t % 256>> \o MulDigit(Tail(a), k, t \div 256)

RECURSIVE MulSeq(_, _)
MulSeq(a, b) ==
    IF a = <<>> THEN <<>>
    ELSE AddC(MulDigit(b, Head(a), 0), <<0>> \o MulSeq(Tail(a), b), 0)

Mul(a, b) == Norm(MulSeq(a, b))

\* one digit of a long division by d < 2^30, bit by bit
RECURSIVE BitStep(_, _, _, _, _)
BitStep(r, x, d, b, q) ==
    IF b < 0 THEN [q |-> q, r |-> r]
    ELSE LET r2 == 2 * r + ((x \div (2 ^ b)) % 2)
         IN  IF r2 >= d
             THEN BitStep(r2 - d, x, d, b - 1, q + 2 ^ b)
             ELSE BitStep(r2, x, d, b - 1, q)

RECURSIVE DivFrom(_, _, _, _)
DivFrom(a, i, r, d) ==
    IF i = 0 THEN <<>>
    ELSE LET st == BitStep(r, a[i], d, 7, 0)
         IN  DivFrom(a, i - 1, st.r, d) \o <<st.q>>

\* floor(a / d) for an integer d, 0 < d < 2^30
Div(a, d) == Norm(DivFrom(a, Len(a), 0, d))

(***************************************************************************)
(* u64 arithmetic.                                                         *)
(***************************************************************************)
Fits64(a) == Len(a) <= 8

Wrap64(a) == IF Fits64(a) THEN a ELSE Norm(SubSeq(a, 1, 8))

U64_MAX == <<255, 255, 255, 255, 255, 255, 255, 255>>


Zero == <<>>

One == <<1>>

\* a.checked_add(b), a.checked_sub(b): ok is FALSE where Rust returns None
checked_add(a, b) == [ok |-> Fits64(Add(a, b)), v |-> Wrap64(Add(a, b))]

checked_sub(a, b) == [ok |-> Leq(b, a), v |-> IF Leq(b, a) THEN Sub(a, b) ELSE Zero]

\* the operators * and + on u64: the exact result, the wrapped value, and
\* whether the exact result is out of range
mul_u64(a, b) == [v |-> Wrap64(Mul(a, b)), ovf |-> ~Fits64(Mul(a, b))]

add_u64(a, b) == [v |-> Wrap64(Add(a, b)), ovf |-> ~Fits64(Add(a, b))]

\* `x as u64` for an i64 x
as_u64(x) == IF x >= 0 THEN Nat2U(x) ELSE Sub(Add(U64_MAX, One), Nat2U(-x))

(***************************************************************************)
(* constants.rs                                                            *)
(***************************************************************************)
SECONDS_IN_SEVEN_DAYS == 604800

SECONDS_IN_THIRTY_DAYS == 2592000

SECONDS_IN_NINETY_DAYS == 7776000

TIER_1_APY_NUMERATOR == 5

TIER_1_APY_DENOMINATOR == 100

TIER_2_APY_NUMERATOR == 10

TIER_2_APY_DENOMINATOR == 100

TIER_3_APY_NUMERATOR == 20

TIER_3_APY_DENOMINATOR == 100

SECONDS_PER_YEAR == 31536000

MIN_LOCK_DURATION == 604800

MAX_LOCK_DURATION == 315360000

MIN_STAKE_AMOUNT == Nat2U(1000000000)

\* 100_000_000_000_000 = 100_000 * 10^9
MAX_STAKE_AMOUNT == Mul(Nat2U(100000), Nat2U(1000000000))


\* get_apy_for_duration with exclusive thresholds
get_apy_exclusive(lock_duration) ==
    IF lock_duration > SECONDS_IN_NINETY_DAYS
    THEN <<TIER_3_APY_NUMERATOR, TIER_3_APY_DENOMINATOR>>
    ELSE IF lock_duration > SECONDS_IN_THIRTY_DAYS
         THEN <<TIER_2_APY_NUMERATOR, TIER_2_APY_DENOMINATOR>>
         ELSE <<TIER_1_APY_NUMERATOR, TIER_1_APY_DENOMINATOR>>

get_apy_for_duration(lock_duration) ==
    IF lock_duration >= SECONDS_IN_NINETY_DAYS
    THEN <<TIER_3_APY_NUMERATOR, TIER_3_APY_DENOMINATOR>>
    ELSE IF lock_duration >= SECONDS_IN_THIRTY_DAYS
         THEN <<TIER_2_APY_NUMERATOR, TIER_2_APY_DENOMINATOR>>
         ELSE <<TIER_1_APY_NUMERATOR, TIER_1_APY_DENOMINATOR>>

\* config.daily_claim_amount = 100_000_000_000 = 100 * 10^9
daily_claim_amount == Mul(Nat2U(100), Nat2U(1000000000))

(***************************************************************************)
(* Bounds and inputs of the model.                                         *)
(***************************************************************************)
\* stake is modelled while global_stats.total_stakes is below this
MaxStakes == 2

Users == {"alice", "bob"}

\* the values of a u64 stake index that name a stake account of the model
Indices == {Nat2U(i) : i \in 0..(MaxStakes - 1)}

StakeKeys == Users \X Indices

\* the (amount, lock duration) pairs stake accepts that the model offers
StakeOffers ==
    {<<MIN_STAKE_AMOUNT, MIN_LOCK_DURATION>>,
     <<MIN_STAKE_AMOUNT, SECONDS_IN_NINETY_DAYS>>,
     <<MAX_STAKE_AMOUNT, SECONDS_IN_NINETY_DAYS>>}

Other(u) == CHOOSE v \in Users : v # u

\* what callers submit to stake: every offer with the caller's own token
\* account, an amount below the minimum, a lock duration
\* above the maximum, and another user's token account
StakeInputs ==
    {[user |-> u, tok |-> u, amount |-> o[1], lock_duration |-> o[2]] :
        u \in Users, o \in StakeOffers}
    \cup
    {[user |-> u, tok |-> u, amount |-> Sub(MIN_STAKE_AMOUNT, One),
      lock_duration |-> SECONDS_IN_NINETY_DAYS] : u \in Users}
    \cup
    {[user |-> u, tok |-> u, amount |-> MIN_STAKE_AMOUNT,
      lock_duration |-> MAX_LOCK_DURATION + 1] : u \in Users}
    \cup
    {[user |-> u, tok |-> Other(u), amount |-> MIN_STAKE_AMOUNT,
      lock_duration |-> SECONDS_IN_NINETY_DAYS] : u \in Users}

\* what callers submit to unstake, for each index a stake can have been given:
\* the caller's own stake account and token account, another user's stake
\* account, and another user's token account
UnstakeInputs ==
    UNION {
        {[user |-> u, tok |-> u, key |-> <<u, i>>, stake_count |-> i],
         [user |-> u, tok |-> u, key |-> <<Other(u), i>>, stake_count |-> i],
         [user |-> u, tok |-> Other(u), key |-> <<u, i>>, stake_count |-> i]} :
        u \in Users, i \in Indices}

\* the instants the clock visits
Times == {0, MIN_LOCK_DURATION - 1, SECONDS_IN_NINETY_DAYS}

\* tokens each user holds when the model starts, in faucet claims
InitialClaims == [u \in Users |-> IF u = "alice" THEN 2000 ELSE 1]

(***************************************************************************)
(* state.rs                                                                *)
(***************************************************************************)
VARIABLES
    clock,            \* Clock::get()?.unix_timestamp
    overflow_checks,  \* the build: TRUE when u64 overflow panics, FALSE when it wraps
    token_amount,     \* user -> amount of the user's token account
    vault_amount,     \* amount of the vault token account
    counter,          \* user -> StakeCounter account
    stake_account,    \* (user, index) -> StakeAccount account
    global_stats,     \* the GlobalStats account
    config,           \* the TokenConfig account
    user_claim,       \* user -> UserClaim account
    delegation,       \* token account -> its delegate and delegated amount
    last,             \* the instruction processed last and its outcome
    withdrawals,      \* (user, index) -> number of unstakes that returned Ok
    assigned,         \* user -> the stake_index of each stake that returned Ok
    rewards_sum,      \* sum of the rewards the unstakes that returned Ok paid
    stake_events,     \* (user, index) -> the StakeEvent of the open stake account
    claimed_at        \* user -> the time of the user's last claim that returned
                      \* Ok, as a set: empty while none has

vars ==
    <<clock, overflow_checks, token_amount, vault_amount, counter,
      stake_account, global_stats, config, user_claim, delegation, last,
      withdrawals, assigned, rewards_sum, stake_events, claimed_at>>

history == <<withdrawals, assigned, rewards_sum, stake_events, claimed_at>>

accounts ==
    <<token_amount, vault_amount, counter, stake_account, global_stats,
      config, user_claim, delegation>>

DefaultPubkey == "default"

\* an address that holds no account
NoStakeAccount ==
    [exists |-> FALSE, user |-> DefaultPubkey, staked_amount |-> Zero,
     staked_at |-> 0, lock_duration |-> 0, stake_index |-> Zero]

\* a StakeAccount as `init` creates it: zeroed
StakeAccount == [NoStakeAccount EXCEPT !.exists = TRUE]

NoStakeCounter == [exists |-> FALSE, stake_count |-> Zero]

StakeCounter == [exists |-> TRUE, stake_count |-> Zero]

GlobalStats ==
    [total_staked |-> Zero, total_stakes |-> Zero, total_rewards_paid |-> Zero]

\* the address of no account
NoConfig ==
    [exists |-> FALSE, admin |-> DefaultPubkey, mint |-> DefaultPubkey,
     vault |-> DefaultPubkey, vault_authority |-> DefaultPubkey,
     daily_claim_amount |-> Zero]

\* the vault token account is owned by the vault authority PDA
VaultOwner == "vault-authority"

\* the TokenConfig account as the initialize handler fills it
TokenConfig(admin) ==
    [exists |-> TRUE, admin |-> admin, mint |-> "devr-mint",
     vault |-> "vault", vault_authority |-> VaultOwner,
     daily_claim_amount |-> daily_claim_amount]

\* a UserClaim account as init_if_needed creates it: zeroed
UserClaim == [last_claim_time |-> 0, total_claimed |-> Zero]

\* a token account without a delegate
NoDelegate == [delegate |-> DefaultPubkey, delegated_amount |-> Zero]

\* the accounts an instruction reads and writes
Chain ==
    [token |-> token_amount, vault |-> vault_amount, counter |-> counter,
     stake |-> stake_account, stats |-> global_stats, config |-> config,
     claim |-> user_claim, delegate |-> delegation]

NoEvent ==
    [stake_index |-> Zero, amount |-> Zero, lock_duration |-> 0,
     apy |-> <<0, 0>>, rewards |-> Zero, total |-> Zero, overflow |-> FALSE]

Fail(code, st) == [err |-> code, st |-> st, event |-> NoEvent]

(***************************************************************************)
(* token::transfer of the token program: `amount` from the token account   *)
(* `src` to the token account `dst`, each a user's account or "vault".     *)
(***************************************************************************)
Vault == "vault"

Balance(st, a) == IF a = Vault THEN st.vault ELSE st.token[a]

SetBalance(st, a, v) ==
    IF a = Vault THEN [st EXCEPT !.vault = v] ELSE [st EXCEPT !.token[a] = v]

\* token_transfer with the amount credited and the source left as it was
token_transfer_uncharged(st, src, dst, amount) ==
    IF Less(Balance(st, src), amount) THEN Fail("InsufficientFunds", st)
    ELSE LET credit == checked_add(Balance(st, dst), amount)
         IN  IF ~credit.ok THEN Fail("Overflow", st)
             ELSE [err |-> "Ok", st |-> SetBalance(st, dst, credit.v),
                   event |-> NoEvent]

token_transfer(st, src, dst, amount) ==
    IF Less(Balance(st, src), amount) THEN Fail("InsufficientFunds", st)
    ELSE LET debited == SetBalance(st, src, Sub(Balance(st, src), amount))
             credit == checked_add(Balance(debited, dst), amount)
         IN  IF ~credit.ok THEN Fail("Overflow", st)
             ELSE [err |-> "Ok", st |-> SetBalance(debited, dst, credit.v),
                   event |-> NoEvent]

TokenAccounts == Users \cup {Vault}


\* TokenOwner with the vault owned by a user
TokenOwnerUser(a) == IF a = Vault THEN "alice" ELSE a

\* the owner of a token account: the user of a user's account
\* (token::authority = user), the vault authority PDA of the vault
\* (token::authority = vault_authority)
TokenOwner(a) == IF a = Vault THEN VaultOwner ELSE a

\* token::transfer signed by `authority`: the delegate of `src` moves at most
\* the delegated amount, anyone else must be the owner of `src`
spl_transfer(st, src, dst, authority, amount) ==
    LET d == st.delegate[src]
    IN  IF Less(Balance(st, src), amount) THEN Fail("InsufficientFunds", st)
        ELSE IF d.delegate = authority
        THEN IF Less(d.delegated_amount, amount)
             THEN Fail("InsufficientFunds", st)
             ELSE IF src = dst THEN [err |-> "Ok", st |-> st, event |-> NoEvent]
             ELSE LET left == Sub(d.delegated_amount, amount)
                  IN  token_transfer(
                          [st EXCEPT !.delegate[src] =
                              IF left = Zero THEN NoDelegate
                              ELSE [d EXCEPT !.delegated_amount = left]],
                          src, dst, amount)
        ELSE IF TokenOwner(src) # authority THEN Fail("OwnerMismatch", st)
        ELSE token_transfer(st, src, dst, amount)

\* token::approve signed by `authority`
spl_approve(st, account, delegate, authority, amount) ==
    IF TokenOwner(account) # authority THEN Fail("OwnerMismatch", st)
    ELSE [err |-> "Ok",
          st |-> [st EXCEPT !.delegate[account] =
                     [delegate |-> delegate, delegated_amount |-> amount]],
          event |-> NoEvent]

\* token::revoke signed by `authority`
spl_revoke(st, account, authority) ==
    IF TokenOwner(account) # authority THEN Fail("OwnerMismatch", st)
    ELSE [err |-> "Ok", st |-> [st EXCEPT !.delegate[account] = NoDelegate],
          event |-> NoEvent]

\* token::mint_to signed by the mint authority PDA
spl_mint_to(st, dst, amount) ==
    LET credit == checked_add(Balance(st, dst), amount)
    IN  IF ~credit.ok THEN Fail("Overflow", st)
        ELSE [err |-> "Ok", st |-> SetBalance(st, dst, credit.v),
              event |-> NoEvent]

\* Account<TokenAccount>: the vault exists once initialize has created it
TokenAccountExists(st, a) == a # Vault \/ st.config.exists

(***************************************************************************)
(* instructions/initialize.rs                                              *)
(***************************************************************************)

\* InitializeAccounts without `init`
InitializeAccountsAgain(s, admin) == [err |-> "Ok", st |-> s, event |-> NoEvent]

\* #[derive(Accounts)] Initialize: `init` creates config, mint, vault and
\* global_stats, and fails when the address of config is in use
InitializeAccounts(s, admin) ==
    IF s.config.exists THEN Fail("AccountInUse", s)
    ELSE [err |-> "Ok", st |-> s, event |-> NoEvent]

InitializeHandler(s, admin) ==
    [err |-> "Ok",
     st |-> [s EXCEPT !.config = TokenConfig(admin), !.vault = Zero,
                      !.stats = GlobalStats, !.delegate[Vault] = NoDelegate],
     event |-> NoEvent]

(***************************************************************************)
(* instructions/claim_tokens.rs                                            *)
(***************************************************************************)
CLAIM_COOLDOWN == 86400

ClaimTokensAccounts(s, user) ==
    IF ~s.config.exists THEN Fail("AccountNotInitialized", s)
    ELSE [err |-> "Ok", st |-> s, event |-> NoEvent]

ClaimTokensHandler(s, now, user) ==
    LET claimed == s.claim[user]
    IN  IF /\ claimed.last_claim_time # 0
           /\ now - claimed.last_claim_time < CLAIM_COOLDOWN
        THEN Fail("ClaimTooSoon", s)
        ELSE
        LET minted == spl_mint_to(s, user, s.config.daily_claim_amount)
        IN  IF minted.err # "Ok" THEN minted
            ELSE [minted EXCEPT
                    !.st.claim[user] =
                        [last_claim_time |-> now,
                         total_claimed |->
                             Wrap64(Add(claimed.total_claimed,
                                        s.config.daily_claim_amount))]]

(***************************************************************************)
(* instructions/transfer_tokens.rs, instructions/delegated_transfer.rs     *)
(***************************************************************************)
MIN_TRANSFER == Nat2U(1000000000)

MAX_TRANSFER == Mul(Nat2U(10000), Nat2U(1000000000))

TransferAccounts(s, from, to) ==
    IF ~TokenAccountExists(s, from) \/ ~TokenAccountExists(s, to)
    THEN Fail("AccountNotInitialized", s)
    ELSE [err |-> "Ok", st |-> s, event |-> NoEvent]

\* the handler of transfer: the result of token::transfer is not read, and a
\* cross-program invocation that fails ends the transaction with its error
TransferTokensHandler(s, authority, from, to, amount) ==
    IF ~Leq(MIN_TRANSFER, amount) THEN Fail("AmountTooSmall", s)
    ELSE IF ~Leq(amount, MAX_TRANSFER) THEN Fail("AmountTooLarge", s)
    ELSE IF ~Leq(amount, Balance(s, from)) THEN Fail("InsufficientBalance", s)
    ELSE spl_transfer(s, from, to, authority, amount)

DelegatedTransferHandler(s, delegate, from, to, amount) ==
    IF ~Leq(MIN_TRANSFER, amount) THEN Fail("AmountTooSmall", s)
    ELSE IF ~Leq(amount, MAX_TRANSFER) THEN Fail("AmountTooLarge", s)
    ELSE spl_transfer(s, from, to, delegate, amount)

(***************************************************************************)
(* instructions/approve_delegate.rs, instructions/revoke_delegate.rs       *)
(***************************************************************************)
DelegateAccounts(s, account) ==
    IF ~TokenAccountExists(s, account) THEN Fail("AccountNotInitialized", s)
    ELSE [err |-> "Ok", st |-> s, event |-> NoEvent]

ApproveDelegateHandler(s, owner, account, delegate, amount) ==
    IF ~Less(Zero, amount) THEN Fail("AmountTooSmall", s)
    ELSE IF ~Leq(amount, Balance(s, account))
    THEN Fail("InsufficientBalance", s)
    ELSE spl_approve(s, account, delegate, owner, amount)

RevokeDelegateHandler(s, owner, account) == spl_revoke(s, account, owner)

(***************************************************************************)
(* instructions/stake.rs                                                   *)
(***************************************************************************)
\* #[derive(Accounts)] Stake: `user` signs and passes the token account of
\* `tok`; the counter is created if needed and the stake account is created
\* at the address of (user, counter.stake_count).
StakeAccounts(s, user, tok) ==
    IF ~s.config.exists THEN Fail("AccountNotInitialized", s)
    ELSE
    LET s1 == IF s.counter[user].exists THEN s
              ELSE [s EXCEPT !.counter[user] = StakeCounter]
        key == <<user, s1.counter[user].stake_count>>
    IN  IF s1.stake[key].exists THEN Fail("AccountInUse", s1)
        ELSE LET s2 == [s1 EXCEPT !.stake[key] = StakeAccount]
             IN  IF tok # user THEN Fail("ConstraintTokenOwner", s2)
                 ELSE [err |-> "Ok", st |-> s2, event |-> NoEvent]


\* StakeRequire with the bounds themselves rejected
StakeRequireStrict(amount, lock_duration, balance) ==
    IF ~Less(MIN_STAKE_AMOUNT, amount) THEN "AmountTooSmall"
    ELSE IF ~Less(amount, MAX_STAKE_AMOUNT) THEN "AmountTooLarge"
    ELSE IF ~(lock_duration > MIN_LOCK_DURATION) THEN "DurationTooShort"
    ELSE IF ~(lock_duration < MAX_LOCK_DURATION) THEN "DurationTooLong"
    ELSE IF ~Leq(amount, balance) THEN "InsufficientBalance"
    ELSE "Ok"

\* StakeRequire with the balance of the caller checked first
StakeRequireBalanceFirst(amount, lock_duration, balance) ==
    IF ~Leq(amount, balance) THEN "InsufficientBalance"
    ELSE IF ~Leq(MIN_STAKE_AMOUNT, amount) THEN "AmountTooSmall"
    ELSE IF ~Leq(amount, MAX_STAKE_AMOUNT) THEN "AmountTooLarge"
    ELSE IF ~(lock_duration >= MIN_LOCK_DURATION) THEN "DurationTooShort"
    ELSE IF ~(lock_duration <= MAX_LOCK_DURATION) THEN "DurationTooLong"
    ELSE "Ok"

\* the require! checks that open the handler, in their order
StakeRequire(amount, lock_duration, balance) ==
    IF ~Leq(MIN_STAKE_AMOUNT, amount) THEN "AmountTooSmall"
    ELSE IF ~Leq(amount, MAX_STAKE_AMOUNT) THEN "AmountTooLarge"
    ELSE IF ~(lock_duration >= MIN_LOCK_DURATION) THEN "DurationTooShort"
    ELSE IF ~(lock_duration <= MAX_LOCK_DURATION) THEN "DurationTooLong"
    ELSE IF ~Leq(amount, balance) THEN "InsufficientBalance"
    ELSE "Ok"

\* NextCount with the count left as it is
SameCount(count) == [ok |-> TRUE, v |-> count]

\* counter.stake_count.checked_add(1)
NextCount(count) == checked_add(count, One)

\* StakeHandler that records the stake without the transfer to the vault
StakeHandlerNoDeposit(s, now, user, tok, amount, lock_duration) ==
    LET required == StakeRequire(amount, lock_duration, s.token[tok])
        index == s.counter[user].stake_count
    IN  IF required # "Ok" THEN Fail(required, s)
        ELSE [err |-> "Ok",
              st |-> [s EXCEPT
                        !.stake[<<user, index>>] =
                            [exists |-> TRUE, user |-> user,
                             staked_amount |-> amount, staked_at |-> now,
                             lock_duration |-> lock_duration,
                             stake_index |-> index],
                        !.stats.total_staked = Add(@, amount),
                        !.stats.total_stakes = Add(@, One),
                        !.counter[user].stake_count = Add(@, One)],
              event |-> [stake_index |-> index, amount |-> amount,
                         lock_duration |-> lock_duration,
                         apy |-> get_apy_for_duration(lock_duration),
                         rewards |-> Zero, total |-> Zero, overflow |-> FALSE]]

StakeHandler(s, now, user, tok, amount, lock_duration) ==
    LET required == StakeRequire(amount, lock_duration, s.token[tok])
    IN
    IF required # "Ok" THEN Fail(required, s)
    ELSE
    LET apy == get_apy_for_duration(lock_duration)
        moved == token_transfer(s, tok, Vault, amount)
    IN  IF moved.err # "Ok" THEN moved
        ELSE
        LET key == <<user, s.counter[user].stake_count>>
            s1 == [moved.st EXCEPT !.stake[key] =
                     [exists |-> TRUE, user |-> user, staked_amount |-> amount,
                      staked_at |-> now, lock_duration |-> lock_duration,
                      stake_index |-> s.counter[user].stake_count]]
            staked == checked_add(s1.stats.total_staked, amount)
            stakes == checked_add(s1.stats.total_stakes, One)
            count == NextCount(s1.counter[user].stake_count)
        IN  IF ~staked.ok THEN Fail("ArithmeticOverflow", s1)
            ELSE IF ~stakes.ok
            THEN Fail("ArithmeticOverflow",
                      [s1 EXCEPT !.stats.total_staked = staked.v])
            ELSE IF ~count.ok
            THEN Fail("ArithmeticOverflow",
                      [s1 EXCEPT !.stats.total_staked = staked.v,
                                 !.stats.total_stakes = stakes.v])
            ELSE [err |-> "Ok",
                  st |-> [s1 EXCEPT !.stats.total_staked = staked.v,
                                    !.stats.total_stakes = stakes.v,
                                    !.counter[user].stake_count = count.v],
                  event |-> [stake_index |-> s.counter[user].stake_count,
                             amount |-> amount, lock_duration |-> lock_duration,
                             apy |-> apy, rewards |-> Zero, total |-> Zero,
                             overflow |-> FALSE]]

(***************************************************************************)
(* instructions/unstake.rs                                                 *)
(***************************************************************************)

\* UnstakeAccounts without the seeds and has_one constraints of stake_account
UnstakeAccountsUnowned(s, user, tok, key, stake_count) ==
    IF ~s.config.exists THEN Fail("AccountNotInitialized", s)
    ELSE IF ~s.counter[user].exists THEN Fail("AccountNotInitialized", s)
    ELSE IF ~s.stake[key].exists THEN Fail("AccountNotInitialized", s)
    ELSE IF tok # user THEN Fail("ConstraintTokenOwner", s)
    ELSE [err |-> "Ok", st |-> s, event |-> NoEvent]

\* #[derive(Accounts)] Unstake: `user` signs, names `stake_count`, and passes
\* the stake account at the address `key` and the token account of `tok`.
UnstakeAccounts(s, user, tok, key, stake_count) ==
    IF ~s.config.exists THEN Fail("AccountNotInitialized", s)
    ELSE IF ~s.counter[user].exists THEN Fail("AccountNotInitialized", s)
    ELSE IF ~s.stake[key].exists THEN Fail("AccountNotInitialized", s)
    ELSE IF key # <<user, stake_count>> THEN Fail("ConstraintSeeds", s)
    ELSE IF s.stake[key].user # user THEN Fail("ConstraintHasOne", s)
    ELSE IF tok # user THEN Fail("ConstraintTokenOwner", s)
    ELSE [err |-> "Ok", st |-> s, event |-> NoEvent]


\* Unlocked with the current time compared to the lock duration
UnlockedSinceEpoch(now, acct) == now >= acct.lock_duration

\* Unlocked with the instant of maturity itself still locked
UnlockedAfterMaturity(now, acct) ==
    LET time_elapsed == now - acct.staked_at
    IN  time_elapsed > acct.lock_duration

\* require!(time_elapsed >= stake_account.lock_duration, StillLocked)
Unlocked(now, acct) ==
    LET time_elapsed == now - acct.staked_at
    IN  time_elapsed >= acct.lock_duration

\* credited_seconds with the time elapsed since the stake credited
credited_elapsed(now, acct) == now - acct.staked_at

\* let lock_duration = stake_account.lock_duration: the seconds the reward is
\* computed for are the lock duration stored, not the time elapsed
credited_seconds(now, acct) == acct.lock_duration

\* the reward of a stake account and the total to withdraw, as the handler
\* computes them with * and + on u64: `overflow` tells that a product or the
\* sum left the u64 range, which panics in a build with overflow checks and
\* wraps in a build without
Rewards(staked_amount, lock_duration) ==
    LET apy == get_apy_for_duration(lock_duration)
        with_num == mul_u64(staked_amount, Nat2U(apy[1]))
        amount_with_apy == Div(with_num.v, apy[2])
        with_time == mul_u64(amount_with_apy, as_u64(lock_duration))
        rewards == Div(with_time.v, SECONDS_PER_YEAR)
        sum == add_u64(staked_amount, rewards)
    IN  [apy |-> apy, rewards |-> rewards, total_amount |-> sum.v,
         overflow |-> with_num.ovf \/ with_time.ovf \/ sum.ovf]


\* UnstakeStats with the amount withdrawn taken off total_staked
UnstakeStatsTotal(stats, staked_amount, rewards) ==
    LET staked == checked_sub(stats.total_staked, Add(staked_amount, rewards))
        paid == checked_add(stats.total_rewards_paid, rewards)
    IN  IF ~staked.ok \/ ~paid.ok THEN [ok |-> FALSE, stats |-> stats]
        ELSE [ok |-> TRUE,
              stats |-> [stats EXCEPT !.total_staked = staked.v,
                                      !.total_rewards_paid = paid.v]]

\* UnstakeStats with the stake closed taken off total_stakes
UnstakeStatsOpenCount(stats, staked_amount, rewards) ==
    LET staked == checked_sub(stats.total_staked, staked_amount)
        paid == checked_add(stats.total_rewards_paid, rewards)
        open == checked_sub(stats.total_stakes, One)
    IN  IF ~staked.ok \/ ~paid.ok \/ ~open.ok
        THEN [ok |-> FALSE, stats |-> stats]
        ELSE [ok |-> TRUE,
              stats |-> [stats EXCEPT !.total_staked = staked.v,
                                      !.total_rewards_paid = paid.v,
                                      !.total_stakes = open.v]]

\* UnstakeStats with the amount withdrawn added to total_rewards_paid
UnstakeStatsPaidTotal(stats, staked_amount, rewards) ==
    LET staked == checked_sub(stats.total_staked, staked_amount)
        paid == checked_add(stats.total_rewards_paid,
                            Add(staked_amount, rewards))
    IN  IF ~staked.ok \/ ~paid.ok THEN [ok |-> FALSE, stats |-> stats]
        ELSE [ok |-> TRUE,
              stats |-> [stats EXCEPT !.total_staked = staked.v,
                                      !.total_rewards_paid = paid.v]]

\* the update of the global statistics that follows the transfer
UnstakeStats(stats, staked_amount, rewards) ==
    LET staked == checked_sub(stats.total_staked, staked_amount)
        paid == checked_add(stats.total_rewards_paid, rewards)
    IN  IF ~staked.ok THEN [ok |-> FALSE, stats |-> stats]
        ELSE IF ~paid.ok
        THEN [ok |-> FALSE, stats |-> [stats EXCEPT !.total_staked = staked.v]]
        ELSE [ok |-> TRUE,
              stats |-> [stats EXCEPT !.total_staked = staked.v,
                                      !.total_rewards_paid = paid.v]]

UnstakeHandler(s, now, checks, user, tok, key, stake_count) ==
    LET acct == s.stake[key]
    IN
    IF ~Unlocked(now, acct) THEN Fail("StillLocked", s)
    ELSE
    LET r == Rewards(acct.staked_amount, credited_seconds(now, acct))
    IN
    IF checks /\ r.overflow THEN Fail("Panic", s)
    ELSE IF ~Leq(r.total_amount, s.vault)
    THEN Fail("InsufficientVaultBalance", s)
    ELSE
    LET moved == token_transfer(s, Vault, tok, r.total_amount)
    IN  IF moved.err # "Ok" THEN moved
        ELSE
        LET upd == UnstakeStats(moved.st.stats, acct.staked_amount, r.rewards)
            s1 == [moved.st EXCEPT !.stats = upd.stats]
        IN  IF ~upd.ok THEN Fail("ArithmeticOverflow", s1)
            ELSE [err |-> "Ok", st |-> s1,
                  event |-> [stake_index |-> stake_count,
                             amount |-> acct.staked_amount,
                             lock_duration |-> credited_seconds(now, acct),
                             apy |-> r.apy, rewards |-> r.rewards,
                             total |-> r.total_amount,
                             overflow |-> r.overflow]]


\* UnstakeExit without `close`
UnstakeExitOpen(out, key) == out

\* `close = user`: after the handler returns Ok the stake account is closed
UnstakeExit(out, key) ==
    IF out.err # "Ok" THEN out
    ELSE [out EXCEPT !.st.stake[key] = NoStakeAccount]

(***************************************************************************)
(* lib.rs: the entry points.  An instruction that returns an error leaves  *)
(* no account changed.                                                     *)
(***************************************************************************)
\* Commit without the rollback of a failed instruction
CommitPartial(pre, out) == out.st

Commit(pre, out) == IF out.err = "Ok" THEN out.st ELSE pre

stake(s, now, user, tok, amount, lock_duration) ==
    LET checked == StakeAccounts(s, user, tok)
    IN  IF checked.err # "Ok" THEN checked
        ELSE StakeHandler(checked.st, now, user, tok, amount, lock_duration)

unstake(s, now, checks, user, tok, key, stake_count) ==
    LET checked == UnstakeAccounts(s, user, tok, key, stake_count)
    IN  IF checked.err # "Ok" THEN checked
        ELSE UnstakeExit(
                 UnstakeHandler(checked.st, now, checks, user, tok, key,
                                stake_count),
                 key)

initialize(s, admin) ==
    LET checked == InitializeAccounts(s, admin)
    IN  IF checked.err # "Ok" THEN checked
        ELSE InitializeHandler(checked.st, admin)

claim_tokens(s, now, user) ==
    LET checked == ClaimTokensAccounts(s, user)
    IN  IF checked.err # "Ok" THEN checked
        ELSE ClaimTokensHandler(checked.st, now, user)

transfer(s, authority, from, to, amount) ==
    LET checked == TransferAccounts(s, from, to)
    IN  IF checked.err # "Ok" THEN checked
        ELSE TransferTokensHandler(checked.st, authority, from, to, amount)

approve_delegate(s, owner, account, delegate, amount) ==
    LET checked == DelegateAccounts(s, account)
    IN  IF checked.err # "Ok" THEN checked
        ELSE ApproveDelegateHandler(checked.st, owner, account, delegate,
                                    amount)

delegated_transfer(s, delegate, from, to, amount) ==
    LET checked == TransferAccounts(s, from, to)
    IN  IF checked.err # "Ok" THEN checked
        ELSE DelegatedTransferHandler(checked.st, delegate, from, to, amount)

revoke_delegate(s, owner, account) ==
    LET checked == DelegateAccounts(s, account)
    IN  IF checked.err # "Ok" THEN checked
        ELSE RevokeDelegateHandler(checked.st, owner, account)

Install(st) ==
    /\ token_amount' = st.token
    /\ vault_amount' = st.vault
    /\ counter' = st.counter
    /\ stake_account' = st.stake
    /\ global_stats' = st.stats
    /\ config' = st.config
    /\ user_claim' = st.claim
    /\ delegation' = st.delegate

NoKey == <<DefaultPubkey, Zero>>

NoOp ==
    [op |-> "none", user |-> DefaultPubkey, tok |-> DefaultPubkey, key |-> NoKey,
     amount |-> Zero, lock_duration |-> 0, stake_count |-> Zero,
     result |-> "Ok", event |-> NoEvent]

(***************************************************************************)
(* The state machine.                                                      *)
(***************************************************************************)
Init ==
    /\ clock = 0
    /\ overflow_checks \in BOOLEAN
    /\ token_amount =
           [u \in Users |-> Mul(Nat2U(InitialClaims[u]), daily_claim_amount)]
    /\ vault_amount = Zero
    /\ counter = [u \in Users |-> NoStakeCounter]
    /\ stake_account = [k \in StakeKeys |-> NoStakeAccount]
    /\ global_stats = GlobalStats
    /\ config = TokenConfig("alice")
    /\ user_claim = [u \in Users |-> UserClaim]
    /\ delegation = [a \in TokenAccounts |-> NoDelegate]
    /\ last = NoOp
    /\ withdrawals = [k \in StakeKeys |-> 0]
    /\ assigned = [u \in Users |-> <<>>]
    /\ rewards_sum = Zero
    /\ stake_events = [k \in StakeKeys |-> NoEvent]
    /\ claimed_at = [u \in Users |-> {}]

Stake(user, tok, amount, lock_duration) ==
    /\ Less(global_stats.total_stakes, Nat2U(MaxStakes))
    /\ \E pre \in {Chain} :
       \E out \in {stake(pre, clock, user, tok, amount, lock_duration)} :
       \E post \in {Commit(pre, out)} :
           /\ Install(post)
           /\ last' = [op |-> "stake", user |-> user, tok |-> tok,
                       key |-> <<user, counter[user].stake_count>>,
                       amount |-> amount, lock_duration |-> lock_duration,
                       stake_count |-> Zero,
                       result |-> out.err, event |-> out.event]
           /\ assigned' =
                  IF out.err = "Ok"
                  THEN [assigned EXCEPT
                          ![user] = Append(@, out.event.stake_index)]
                  ELSE assigned
           /\ stake_events' =
                  IF out.err = "Ok"
                  THEN [stake_events EXCEPT
                          ![<<user, out.event.stake_index>>] = out.event]
                  ELSE stake_events
    /\ UNCHANGED <<clock, overflow_checks, withdrawals, rewards_sum,
                   claimed_at>>

Unstake(user, tok, key, stake_count) ==
    /\ \E pre \in {Chain} :
       \E out \in {unstake(pre, clock, overflow_checks, user, tok, key,
                           stake_count)} :
       \E post \in {Commit(pre, out)} :
           /\ Install(post)
           /\ last' = [op |-> "unstake", user |-> user, tok |-> tok,
                       key |-> key, amount |-> Zero, lock_duration |-> 0,
                       stake_count |-> stake_count,
                       result |-> out.err, event |-> out.event]
           /\ withdrawals' =
                  IF out.err = "Ok"
                  THEN [withdrawals EXCEPT ![key] = @ + 1]
                  ELSE withdrawals
           /\ rewards_sum' =
                  IF out.err = "Ok"
                  THEN Add(rewards_sum,
                           Sub(Sub(pre.vault, post.vault),
                               pre.stake[key].staked_amount))
                  ELSE rewards_sum
           /\ stake_events' =
                  IF out.err = "Ok"
                  THEN [stake_events EXCEPT ![key] = NoEvent]
                  ELSE stake_events
    /\ UNCHANGED <<clock, overflow_checks, assigned, claimed_at>>

\* the clock moves on to a later instant
Tick(t) ==
    /\ t > clock
    /\ clock' = t
    /\ last' = NoOp
    /\ UNCHANGED <<overflow_checks, accounts, history>>

Next ==
    \/ \E i \in StakeInputs : Stake(i.user, i.tok, i.amount, i.lock_duration)
    \/ \E i \in UnstakeInputs : Unstake(i.user, i.tok, i.key, i.stake_count)
    \/ \E t \in Times : Tick(t)

Spec == Init /\ [][Next]_vars

(***************************************************************************)
(* The first stake instruction alone, over the amounts and lock durations  *)
(* around every bound and every tier threshold.                            *)
(***************************************************************************)
InputAmounts ==
    {Zero, Sub(MIN_STAKE_AMOUNT, One), MIN_STAKE_AMOUNT,
     Add(MIN_STAKE_AMOUNT, One), Sub(MAX_STAKE_AMOUNT, One), MAX_STAKE_AMOUNT,
     Add(MAX_STAKE_AMOUNT, One), U64_MAX}

InputDurations ==
    {-1, 0}
    \cup UNION {{d - 1, d, d + 1} :
                   d \in {MIN_LOCK_DURATION, SECONDS_IN_THIRTY_DAYS,
                          SECONDS_IN_NINETY_DAYS, MAX_LOCK_DURATION}}

FirstStake(user, amount, lock_duration) ==
    /\ global_stats.total_stakes = Zero
    /\ Stake(user, user, amount, lock_duration)

NextInputs ==
    \E u \in Users, a \in InputAmounts, d \in InputDurations :
        FirstStake(u, a, d)

SpecInputs == Init /\ [][NextInputs]_vars

(***************************************************************************)
(* The first stake instruction again, by users who hold no token, one      *)
(* faucet claim, or more than the largest stake.                           *)
(***************************************************************************)
\* the faucet claims a user can hold when the first stake is submitted
HeldClaims == {0, 1, 2000}

InitBalances ==
    /\ clock = 0
    /\ overflow_checks \in BOOLEAN
    /\ token_amount \in
           [Users -> {Mul(Nat2U(n), daily_claim_amount) : n \in HeldClaims}]
    /\ vault_amount = Zero
    /\ counter = [u \in Users |-> NoStakeCounter]
    /\ stake_account = [k \in StakeKeys |-> NoStakeAccount]
    /\ global_stats = GlobalStats
    /\ config = TokenConfig("alice")
    /\ user_claim = [u \in Users |-> UserClaim]
    /\ delegation = [a \in TokenAccounts |-> NoDelegate]
    /\ last = NoOp
    /\ withdrawals = [k \in StakeKeys |-> 0]
    /\ assigned = [u \in Users |-> <<>>]
    /\ rewards_sum = Zero
    /\ stake_events = [k \in StakeKeys |-> NoEvent]
    /\ claimed_at = [u \in Users |-> {}]

SpecBalances == InitBalances /\ [][NextInputs]_vars

(***************************************************************************)
(* The same instructions from a state in which a user has sent one faucet  *)
(* claim to the vault with the transfer instruction, so that the vault     *)
(* holds more than the principal staked.                                   *)
(***************************************************************************)
InitFunded ==
    /\ clock = 0
    /\ overflow_checks \in BOOLEAN
    /\ token_amount =
           [u \in Users |->
               Mul(Nat2U(InitialClaims[u] - (IF u = "alice" THEN 1 ELSE 0)),
                   daily_claim_amount)]
    /\ vault_amount = daily_claim_amount
    /\ counter = [u \in Users |-> NoStakeCounter]
    /\ stake_account = [k \in StakeKeys |-> NoStakeAccount]
    /\ global_stats = GlobalStats
    /\ config = TokenConfig("alice")
    /\ user_claim = [u \in Users |-> UserClaim]
    /\ delegation = [a \in TokenAccounts |-> NoDelegate]
    /\ last = NoOp
    /\ withdrawals = [k \in StakeKeys |-> 0]
    /\ assigned = [u \in Users |-> <<>>]
    /\ rewards_sum = Zero
    /\ stake_events = [k \in StakeKeys |-> NoEvent]
    /\ claimed_at = [u \in Users |-> {}]

SpecFunded == InitFunded /\ [][Next]_vars

(***************************************************************************)
(* Every entry point of the program, from the state before initialize.     *)
(***************************************************************************)
\* faucet claims are modelled while fewer than this many were minted
MaxClaims == 1

\* the tokens the faucet has minted
Minted ==
    Add(user_claim["alice"].total_claimed, user_claim["bob"].total_claimed)

\* the amount the transfers and approvals of the model name: one faucet claim
TransferAmount == daily_claim_amount

InitPlatform ==
    /\ clock = 0
    /\ overflow_checks \in BOOLEAN
    /\ token_amount = [u \in Users |-> Zero]
    /\ vault_amount = Zero
    /\ counter = [u \in Users |-> NoStakeCounter]
    /\ stake_account = [k \in StakeKeys |-> NoStakeAccount]
    /\ global_stats = GlobalStats
    /\ config = NoConfig
    /\ user_claim = [u \in Users |-> UserClaim]
    /\ delegation = [a \in TokenAccounts |-> NoDelegate]
    /\ last = NoOp
    /\ withdrawals = [k \in StakeKeys |-> 0]
    /\ assigned = [u \in Users |-> <<>>]
    /\ rewards_sum = Zero
    /\ stake_events = [k \in StakeKeys |-> NoEvent]
    /\ claimed_at = [u \in Users |-> {}]

\* the outcome of an instruction other than stake and unstake
Processed(op, signer, pre, out) ==
    /\ Install(Commit(pre, out))
    /\ last' = [NoOp EXCEPT !.op = op, !.user = signer, !.result = out.err]
    /\ UNCHANGED <<clock, overflow_checks, history>>

Initialize(admin) ==
    \E pre \in {Chain} :
    \E out \in {initialize(pre, admin)} :
        Processed("initialize", admin, pre, out)

\* claim_tokens signed by `user` at the time of the clock
Claim(user) ==
    /\ \E pre \in {Chain} :
       \E out \in {claim_tokens(pre, clock, user)} :
           /\ Install(Commit(pre, out))
           /\ last' = [NoOp EXCEPT !.op = "claim_tokens", !.user = user,
                                   !.result = out.err]
           /\ claimed_at' =
                  IF out.err = "Ok" THEN [claimed_at EXCEPT ![user] = {clock}]
                  ELSE claimed_at
    /\ UNCHANGED <<clock, overflow_checks, withdrawals, assigned, rewards_sum,
                   stake_events>>

ClaimTokens(user) ==
    /\ Less(Minted, Mul(Nat2U(MaxClaims), daily_claim_amount))
    /\ Claim(user)

Transfer(authority, from, to, amount) ==
    \E pre \in {Chain} :
    \E out \in {transfer(pre, authority, from, to, amount)} :
        Processed("transfer", authority, pre, out)

ApproveDelegate(owner, account, delegate, amount) ==
    \E pre \in {Chain} :
    \E out \in {approve_delegate(pre, owner, account, delegate, amount)} :
        Processed("approve_delegate", owner, pre, out)

DelegatedTransfer(delegate, from, to, amount) ==
    \E pre \in {Chain} :
    \E out \in {delegated_transfer(pre, delegate, from, to, amount)} :
        Processed("delegated_transfer", delegate, pre, out)

RevokeDelegate(owner, account) ==
    \E pre \in {Chain} :
    \E out \in {revoke_delegate(pre, owner, account)} :
        Processed("revoke_delegate", owner, pre, out)

\* each user signs for the user's own token account and for the vault
NextPlatform ==
    \/ \E u \in Users : Initialize(u)
    \/ \E u \in Users : ClaimTokens(u)
    \/ \E u \in Users : \E to \in {Other(u), Vault} :
           Transfer(u, u, to, TransferAmount)
    \/ \E u \in Users : Transfer(u, Vault, u, TransferAmount)
    \/ \E u \in Users : \E a \in {u, Vault} :
           ApproveDelegate(u, a, Other(u), TransferAmount)
    \/ \E u \in Users : \E from \in {Other(u), Vault} :
           DelegatedTransfer(u, from, u, TransferAmount)
    \/ \E u \in Users : \E a \in {u, Vault} : RevokeDelegate(u, a)
    \/ \E u \in Users : Stake(u, u, MIN_STAKE_AMOUNT, MIN_LOCK_DURATION)
    \/ \E k \in StakeKeys : Unstake(k[1], k[1], k, k[2])
    \/ \E t \in Times : Tick(t)

SpecPlatform == InitPlatform /\ [][NextPlatform]_vars

(***************************************************************************)
(* The faucet alone, after initialize, at the instants around the          *)
(* cooldown.                                                               *)
(***************************************************************************)
\* a user claims while fewer than this many claims of the user returned Ok
MaxUserClaims == 2

\* the instants the clock visits while users claim
ClaimTimes ==
    {0, 1, CLAIM_COOLDOWN - 1, CLAIM_COOLDOWN, CLAIM_COOLDOWN + 1,
     2 * CLAIM_COOLDOWN}

InitFaucet ==
    /\ clock = 0
    /\ overflow_checks \in BOOLEAN
    /\ token_amount = [u \in Users |-> Zero]
    /\ vault_amount = Zero
    /\ counter = [u \in Users |-> NoStakeCounter]
    /\ stake_account = [k \in StakeKeys |-> NoStakeAccount]
    /\ global_stats = GlobalStats
    /\ config = TokenConfig("alice")
    /\ user_claim = [u \in Users |-> UserClaim]
    /\ delegation = [a \in TokenAccounts |-> NoDelegate]
    /\ last = NoOp
    /\ withdrawals = [k \in StakeKeys |-> 0]
    /\ assigned = [u \in Users |-> <<>>]
    /\ rewards_sum = Zero
    /\ stake_events = [k \in StakeKeys |-> NoEvent]
    /\ claimed_at = [u \in Users |-> {}]

FaucetClaim(user) ==
    /\ Less(user_claim[user].total_claimed,
            Mul(Nat2U(MaxUserClaims), daily_claim_amount))
    /\ Claim(user)

NextFaucet ==
    \/ \E u \in Users : FaucetClaim(u)
    \/ \E t \in ClaimTimes : Tick(t)

SpecFaucet == InitFaucet /\ [][NextFaucet]_vars

(***************************************************************************)
(* Properties.                                                             *)
(***************************************************************************)
OpenKeys == {k \in StakeKeys : stake_account[k].exists}

RECURSIVE SumStaked(_)
SumStaked(keys) ==
    IF keys = {} THEN Zero
    ELSE LET k == CHOOSE x \in keys : TRUE
         IN  Add(stake_account[k].staked_amount, SumStaked(keys \ {k}))

\* the instruction processed last was an unstake by the owner of an open
\* stake account, with the accounts the instruction asks for
OwnerUnstake(l, stakes) ==
    /\ l.op = "unstake"
    /\ l.key = <<l.user, l.stake_count>>
    /\ l.tok = l.user
    /\ stakes[l.key].exists
    /\ stakes[l.key].user = l.user

\* the tier of a lock duration, as the specification tabulates it
TierOf(d) ==
    IF d >= 7776000 THEN <<20, 100>>
    ELSE IF d >= 2592000 THEN <<10, 100>>
    ELSE <<5, 100>>

\* floor(floor(amount * num / denom) * lock_duration / 31536000) over the
\* naturals
ExactReward(amount, d) ==
    Div(Mul(Div(Mul(amount, Nat2U(TierOf(d)[1])), TierOf(d)[2]), Nat2U(d)),
        31536000)

\* C1: in every reachable state total_staked equals the sum of staked_amount
\* over the open stake accounts of all users.
C1_TotalStakedIsSumOfOpen == global_stats.total_staked = SumStaked(OpenKeys)

\* a stake account was closed while another one stays open
C1_Witness ==
    /\ last.op = "unstake"
    /\ last.result = "Ok"
    /\ OpenKeys # {}
    /\ global_stats.total_staked # Zero

\* C2: with only stake and unstake touching the vault, the unstake of a
\* matured stake account by its owner never fails with
\* InsufficientVaultBalance (the vault always covers principal plus reward).
C2_VaultCoversMatured ==
    ~(last.op = "unstake" /\ last.result = "InsufficientVaultBalance")

\* C3: a successful unstake moves exactly staked_amount + reward from the
\* vault to the owner, reward = floor(floor(staked_amount * num / denom) *
\* lock_duration / 31536000) for the tier of the stored lock_duration.
C3_UnstakePaysExactReward ==
    [][(last'.op = "unstake" /\ last'.result = "Ok") =>
          LET acct == stake_account[last'.key]
              owed == Add(acct.staked_amount,
                          ExactReward(acct.staked_amount, acct.lock_duration))
          IN  /\ vault_amount = Add(vault_amount', owed)
              /\ token_amount'[acct.user] = Add(token_amount[acct.user], owed)
       ]_vars

\* C4: whenever a product or the sum of the reward computation of unstake
\* exceeds 2^64 - 1, the instruction fails with ArithmeticOverflow and never
\* proceeds with a wrapped value.
C4_OverflowIsChecked ==
    /\ (last.op = "unstake" /\ last.result = "Ok") => ~last.event.overflow
    /\ (/\ OwnerUnstake(last, stake_account)
        /\ Unlocked(clock, stake_account[last.key])
        /\ Rewards(stake_account[last.key].staked_amount,
                   stake_account[last.key].lock_duration).overflow)
       => last.result = "ArithmeticOverflow"

\* C5: an unstake of an open stake account by its owner at a time less than
\* lock_duration after staked_at fails with StillLocked and the stake account
\* stays as it was.
C5_LockedUntilMaturity ==
    [][(/\ OwnerUnstake(last', stake_account)
        /\ clock - stake_account[last'.key].staked_at
               < stake_account[last'.key].lock_duration)
       => /\ last'.result = "StillLocked"
          /\ stake_account'[last'.key] = stake_account[last'.key]
       ]_vars

\* the owner tried one second before maturity
C5_Witness ==
    /\ OwnerUnstake(last, stake_account)
    /\ last.result = "StillLocked"
    /\ clock - stake_account[last.key].staked_at
           = stake_account[last.key].lock_duration - 1

\* C6: a stake account is closed at most once: no (owner, index) is ever
\* unstaked successfully twice.
C6_ClosedAtMostOnce == \A k \in StakeKeys : withdrawals[k] <= 1

\* the owner unstaked a closed stake account again and was refused
C6_Witness ==
    /\ last.op = "unstake"
    /\ last.key = <<last.user, last.stake_count>>
    /\ last.tok = last.user
    /\ withdrawals[last.key] = 1
    /\ last.result # "Ok"

\* C7: an unstake by a caller who is not the owner of the stake account
\* passed fails, and leaves the stake accounts, the vault and the global
\* statistics unchanged.
C7_OnlyOwnerCloses ==
    [][(/\ last'.op = "unstake"
        /\ stake_account[last'.key].exists
        /\ stake_account[last'.key].user # last'.user)
       => /\ last'.result # "Ok"
          /\ UNCHANGED <<stake_account, vault_amount, global_stats,
                         token_amount>>
       ]_vars

\* another user tried to close a matured stake account
C7_Witness ==
    /\ last.op = "unstake"
    /\ stake_account[last.key].exists
    /\ stake_account[last.key].user # last.user
    /\ counter[last.user].exists
    /\ Unlocked(clock, stake_account[last.key])
    /\ last.result = "ConstraintSeeds"

C9_EachBoundReported ==
    (last.op = "stake" /\ last.tok = last.user) =>
        /\ Less(last.amount, Nat2U(1000000000))
               => last.result = "AmountTooSmall"
        /\ Less(Mul(Nat2U(100000), Nat2U(1000000000)), last.amount)
               => last.result = "AmountTooLarge"
        /\ last.lock_duration < 604800 => last.result = "DurationTooShort"
        /\ last.lock_duration > 315360000 => last.result = "DurationTooLong"
        /\ (/\ Leq(Nat2U(1000000000), last.amount)
            /\ Leq(last.amount, Mul(Nat2U(100000), Nat2U(1000000000)))
            /\ last.lock_duration >= 604800
            /\ last.lock_duration <= 315360000)
               => last.result \notin {"AmountTooSmall", "AmountTooLarge",
                                      "DurationTooShort", "DurationTooLong"}

\* C9: an amount below 1_000_000_000 fails with AmountTooSmall, one above
\* 100_000_000_000_000 with AmountTooLarge; with the amount within its bounds
\* a lock duration below 604_800 fails with DurationTooShort, one above
\* 315_360_000 with DurationTooLong; and no input within both closed ranges
\* fails with any of the four.
C9_BoundsReportedInOrder ==
    (last.op = "stake" /\ last.tok = last.user) =>
        LET in_range ==
                /\ Leq(Nat2U(1000000000), last.amount)
                /\ Leq(last.amount, Mul(Nat2U(100000), Nat2U(1000000000)))
        IN  /\ Less(last.amount, Nat2U(1000000000))
                   => last.result = "AmountTooSmall"
            /\ Less(Mul(Nat2U(100000), Nat2U(1000000000)), last.amount)
                   => last.result = "AmountTooLarge"
            /\ (in_range /\ last.lock_duration < 604800)
                   => last.result = "DurationTooShort"
            /\ (in_range /\ last.lock_duration > 315360000)
                   => last.result = "DurationTooLong"
            /\ (in_range /\ last.lock_duration >= 604800
                         /\ last.lock_duration <= 315360000)
                   => last.result \notin {"AmountTooSmall", "AmountTooLarge",
                                          "DurationTooShort", "DurationTooLong"}

\* the largest amount with the longest lock duration was accepted
C9_Witness ==
    /\ last.op = "stake"
    /\ last.amount = Mul(Nat2U(100000), Nat2U(1000000000))
    /\ last.lock_duration = 315360000
    /\ last.result = "Ok"

\* C10: every lock duration stake accepts resolves to 20/100 from 7_776_000
\* on, to 10/100 from 2_592_000 on and to 5/100 below, each threshold
\* belonging to the higher tier.
C10_TierOfDuration ==
    (last.op = "stake" /\ last.result = "Ok") =>
        /\ last.event.apy = TierOf(last.lock_duration)
        /\ last.lock_duration = 2592000 => last.event.apy = <<10, 100>>
        /\ last.lock_duration = 2591999 => last.event.apy = <<5, 100>>
        /\ last.lock_duration = 7776000 => last.event.apy = <<20, 100>>
        /\ last.lock_duration = 7775999 => last.event.apy = <<10, 100>>

\* a stake locked for exactly thirty days was given the second tier
C10_Witness ==
    /\ last.op = "stake"
    /\ last.result = "Ok"
    /\ last.lock_duration = 2592000
    /\ last.event.apy = <<10, 100>>

\* the instants of the model at which a stake account is matured
MaturedTimes(acct) ==
    {t \in Times \cup {acct.staked_at + acct.lock_duration} :
        t - acct.staked_at >= acct.lock_duration}

\* C11: the reward and the total of a successful unstake are those the same
\* unstake pays from the same accounts at every other time at or after
\* staked_at + lock_duration: they do not depend on the time of the unstake.
C11_RewardIgnoresUnstakeTime ==
    [][(last'.op = "unstake" /\ last'.result = "Ok") =>
          \A t \in MaturedTimes(stake_account[last'.key]) :
              \A other \in {unstake(Chain, t, overflow_checks, last'.user,
                                     last'.tok, last'.key, last'.stake_count)} :
                  /\ other.err = "Ok"
                  /\ other.event.rewards = last'.event.rewards
                  /\ other.event.total = last'.event.total
                  /\ other.st.vault = vault_amount'
                  /\ other.st.token = token_amount'
       ]_vars

\* a stake account was unstaked later than its maturity, whenever it was staked
C11_Witness ==
    /\ last.op = "unstake"
    /\ last.result = "Ok"
    /\ last.event.rewards # Zero
    /\ \A t \in Times : t < clock => clock - t > last.event.lock_duration

\* C12: the stake_index values given to the stakes of a user are pairwise
\* distinct, those of stake accounts closed since included.
C12_IndexNeverReused ==
    \A u \in Users :
        \A i, j \in DOMAIN assigned[u] :
            i # j => assigned[u][i] # assigned[u][j]

\* a user staked again after the stake account of an earlier index was closed
C12_Witness ==
    /\ last.op = "stake"
    /\ last.result = "Ok"
    /\ Len(assigned[last.user]) = 2
    /\ withdrawals[<<last.user, assigned[last.user][1]>>] = 1

\* C13: the stake_count of each user's counter is zero before the user's
\* first stake and always equals the number of stakes of that user that
\* returned Ok: unstake and failed instructions leave it unchanged.
C13_CounterCountsStakes ==
    \A u \in Users : counter[u].stake_count = Nat2U(Len(assigned[u]))

\* a user has staked twice and unstaked once, and an instruction has failed
C13_Witness ==
    /\ last.result # "Ok"
    /\ \E u \in Users :
           /\ counter[u].stake_count = Nat2U(2)
           /\ \E k \in StakeKeys : k[1] = u /\ withdrawals[k] = 1

RECURSIVE StakesMade(_)
StakesMade(users) ==
    IF users = {} THEN 0
    ELSE LET u == CHOOSE x \in users : TRUE
         IN  Len(assigned[u]) + StakesMade(users \ {u})

\* C14: total_stakes equals the number of stakes that returned Ok, of all
\* users, whatever was unstaked since.
C14_TotalStakesCountsStakes ==
    global_stats.total_stakes = Nat2U(StakesMade(Users))

\* both users have staked and a stake account was closed
C14_Witness ==
    /\ last.op = "unstake"
    /\ last.result = "Ok"
    /\ \A u \in Users : assigned[u] # <<>>
    /\ global_stats.total_stakes = Nat2U(2)

\* C15: total_rewards_paid never decreases, is not changed by stake, and
\* equals the sum of the rewards paid by the unstakes that returned Ok.
C15_RewardsPaidIsSumOfRewards ==
    [][/\ Leq(global_stats.total_rewards_paid,
              global_stats'.total_rewards_paid)
       /\ global_stats'.total_rewards_paid = rewards_sum'
       /\ last'.op = "stake"
              => global_stats'.total_rewards_paid
                     = global_stats.total_rewards_paid
      ]_vars

\* an unstake has paid a reward
C15_Witness ==
    /\ last.op = "unstake"
    /\ last.result = "Ok"
    /\ global_stats.total_rewards_paid # Zero
    /\ global_stats.total_rewards_paid = last.event.rewards

\* C16: a stake that returns Ok moves exactly amount from the caller's token
\* account to the vault and creates exactly one stake account, with user the
\* caller, staked_amount the amount, staked_at the current time, lock_duration
\* the input and stake_index the caller's stake_count before the call; the
\* staked_amount and lock_duration of an open stake account never change.
C16_StakeCreatesOnePosition ==
    [][/\ (last'.op = "stake" /\ last'.result = "Ok") =>
              LET index == counter[last'.user].stake_count
                  key == <<last'.user, index>>
              IN  /\ token_amount[last'.user]
                         = Add(token_amount'[last'.user], last'.amount)
                  /\ vault_amount' = Add(vault_amount, last'.amount)
                  /\ ~stake_account[key].exists
                  /\ stake_account'[key] =
                         [exists |-> TRUE, user |-> last'.user,
                          staked_amount |-> last'.amount, staked_at |-> clock,
                          lock_duration |-> last'.lock_duration,
                          stake_index |-> index]
                  /\ \A k \in StakeKeys \ {key} :
                         stake_account'[k] = stake_account[k]
       /\ \A k \in StakeKeys :
              (stake_account[k].exists /\ stake_account'[k].exists) =>
                  /\ stake_account'[k].staked_amount
                         = stake_account[k].staked_amount
                  /\ stake_account'[k].lock_duration
                         = stake_account[k].lock_duration
      ]_vars

\* a user's second stake was recorded at a later time
C16_Witness ==
    /\ last.op = "stake"
    /\ last.result = "Ok"
    /\ last.key[2] = One
    /\ stake_account[last.key].exists
    /\ stake_account[last.key].staked_at = clock
    /\ clock > 0

\* C17: the amount of the vault decreases only in an unstake that returns
\* Ok: no initialize, claim_tokens, transfer, approve_delegate,
\* delegated_transfer, revoke_delegate or stake, by any user, decreases it.
C17_OnlyUnstakeDrainsVault ==
    [][Less(vault_amount', vault_amount)
          => (last'.op = "unstake" /\ last'.result = "Ok")]_vars

\* a user signed a transfer out of the vault, which held the amount, and
\* the token program refused it
C17_Witness ==
    /\ last.op \in {"transfer", "delegated_transfer"}
    /\ last.result = "OwnerMismatch"
    /\ Leq(TransferAmount, vault_amount)

\* C18: initialize returns Ok at most once, and once the TokenConfig account
\* exists no instruction changes it.
C18_ConfigWrittenOnce ==
    [][/\ (last'.op = "initialize" /\ last'.result = "Ok") => ~config.exists
       /\ config.exists => config' = config
      ]_vars

\* another user called initialize after stakes were made, and was refused
C18_Witness ==
    /\ last.op = "initialize"
    /\ last.result = "AccountInUse"
    /\ last.user # config.admin
    /\ global_stats.total_stakes # Zero

\* every open stake account is matured
AllMatured ==
    /\ OpenKeys # {}
    /\ \A k \in OpenKeys : Unlocked(clock, stake_account[k])

\* C19: no matured stake account stays un-withdrawable: whenever every open
\* stake account is matured, the unstake of at least one of them by its owner
\* succeeds (a failed unstake changes no account, so where none succeeds the
\* owners retry for ever and no stake account is ever closed).
C19_MaturedCanWithdraw ==
    AllMatured =>
        \E k \in OpenKeys :
            unstake(Chain, clock, overflow_checks, k[1], k[1], k, k[2]).err
                = "Ok"

\* C20: no (amount, lock_duration) that stake accepts has a reward computation
\* that leaves the u64 range.
C20_AcceptedRewardFits ==
    (last.op = "stake" /\ last.result = "Ok") =>
        ~Rewards(last.amount, last.lock_duration).overflow

\* C21: with only stake and unstake touching the vault, which starts empty,
\* every reachable state has vault balance + total_rewards_paid =
\* total_staked over the integers.
C21_VaultIsStakedLessPaid ==
    Add(vault_amount, global_stats.total_rewards_paid)
        = global_stats.total_staked

\* an unstake paid a reward out of a vault that still holds tokens
C21_Witness ==
    /\ last.op = "unstake"
    /\ last.result = "Ok"
    /\ last.event.rewards # Zero
    /\ global_stats.total_rewards_paid # Zero
    /\ vault_amount # Zero

\* the tokens held by the token accounts of `users`
RECURSIVE SumBalances(_, _)
SumBalances(balances, users) ==
    IF users = {} THEN Zero
    ELSE LET u == CHOOSE x \in users : TRUE
         IN  Add(balances[u], SumBalances(balances, users \ {u}))

\* C22: stake and unstake conserve tokens: the sum of all user token balances
\* plus the vault balance is the same before and after every stake and every
\* unstake; rewards are taken from the vault, not minted.
C22_StakeUnstakeConserveTokens ==
    [][last'.op \in {"stake", "unstake"} =>
          Add(SumBalances(token_amount', Users), vault_amount')
              = Add(SumBalances(token_amount, Users), vault_amount)
       ]_vars

\* an unstake left its owner with more tokens than the owner started with
C22_Witness ==
    /\ last.op = "unstake"
    /\ last.result = "Ok"
    /\ Less(Mul(Nat2U(InitialClaims[last.user]), daily_claim_amount),
            token_amount[last.user])

\* C23: the lock check of unstake is inclusive at maturity: the unstake of an
\* open stake account by its owner at a time now with now - staked_at >=
\* lock_duration, equality included, never fails with StillLocked.
C23_UnlockedAtMaturity ==
    [][(/\ OwnerUnstake(last', stake_account)
        /\ clock - stake_account[last'.key].staked_at
               >= stake_account[last'.key].lock_duration)
       => last'.result # "StillLocked"
       ]_vars

\* an unstake succeeded at the very instant of maturity: the lock duration
\* of the stake account closed is the time that has passed since the epoch,
\* which the lock check allows for a stake made at the epoch only
C23_Witness ==
    /\ last.op = "unstake"
    /\ last.result = "Ok"
    /\ last.event.lock_duration = clock

\* the error the specification gives a stake of `amount` for `d` seconds by a
\* caller who holds `balance`: the first check that fails, in the order
\* AmountTooSmall, AmountTooLarge, DurationTooShort, DurationTooLong,
\* InsufficientBalance
FirstStakeError(amount, d, balance) ==
    IF Less(amount, Nat2U(1000000000)) THEN "AmountTooSmall"
    ELSE IF Less(Mul(Nat2U(100000), Nat2U(1000000000)), amount)
    THEN "AmountTooLarge"
    ELSE IF d < 604800 THEN "DurationTooShort"
    ELSE IF d > 315360000 THEN "DurationTooLong"
    ELSE IF Less(balance, amount) THEN "InsufficientBalance"
    ELSE "None"

StakeErrors ==
    {"AmountTooSmall", "AmountTooLarge", "DurationTooShort",
     "DurationTooLong", "InsufficientBalance"}

\* C24: the checks of stake run in the order AmountTooSmall, AmountTooLarge,
\* DurationTooShort, DurationTooLong, InsufficientBalance, before any
\* mutation: an input that fails several checks reports the first of them,
\* also when the balance of the caller is below the amount, the accounts
\* stay as they were, and an input that fails none reports none of them.
C24_StakeChecksInOrder ==
    [][(last'.op = "stake" /\ last'.tok = last'.user) =>
          \A first \in {FirstStakeError(last'.amount, last'.lock_duration,
                                        token_amount[last'.user])} :
              IF first = "None"
              THEN last'.result \notin StakeErrors
              ELSE /\ last'.result = first
                   /\ UNCHANGED accounts
       ]_vars

\* a stake above the largest amount, for less than the shortest lock
\* duration, by a caller who holds less than the amount, was reported as
\* AmountTooLarge
C24_Witness ==
    /\ last.op = "stake"
    /\ last.result = "AmountTooLarge"
    /\ last.lock_duration < 604800
    /\ Less(token_amount[last.user], last.amount)

\* C25: for every stake account that is closed, the UnstakeEvent carries the
\* (apy_numerator, apy_denominator) of the StakeEvent of the same stake
\* account, both the tier of its lock_duration; the two events carry the
\* same stake_index and lock_duration, and total_withdrawn = principal +
\* rewards.
C25_EventsAgree ==
    [][(last'.op = "unstake" /\ last'.result = "Ok") =>
          \A staked \in {stake_events[last'.key]} :
          \A unstaked \in {last'.event} :
              /\ unstaked.apy = staked.apy
              /\ staked.apy = TierOf(staked.lock_duration)
              /\ unstaked.stake_index = staked.stake_index
              /\ unstaked.lock_duration = staked.lock_duration
              /\ unstaked.total = Add(unstaked.amount, unstaked.rewards)
       ]_vars

\* a stake account of the third tier was closed later than a stake account
\* of the first tier could have been, and its events were compared
C25_Witness ==
    /\ last.op = "unstake"
    /\ last.result = "Ok"
    /\ last.event.apy = <<20, 100>>
    /\ last.event.lock_duration > 604800
    /\ stake_events[last.key] = NoEvent
    /\ last.event.rewards # Zero

\* C26: the records of a user are independent of the other users: a stake or
\* unstake signed by one user, successful or failed, leaves the counter,
\* every stake account and the token balance of every other user unchanged.
C26_OtherUsersUntouched ==
    [][last'.op \in {"stake", "unstake"} =>
          \A b \in Users \ {last'.user} :
              /\ counter'[b] = counter[b]
              /\ token_amount'[b] = token_amount[b]
              /\ \A k \in StakeKeys :
                     k[1] = b => stake_account'[k] = stake_account[k]
       ]_vars

\* a user closed a stake account while another user had a counter, an open
\* stake account and tokens
C26_Witness ==
    /\ last.op = "unstake"
    /\ last.result = "Ok"
    /\ \E b \in Users \ {last.user} :
           /\ counter[b].exists
           /\ token_amount[b] # Zero
           /\ \E k \in StakeKeys : k[1] = b /\ stake_account[k].exists

C27_ClaimCooldownAfterEpoch ==
    [][last'.op = "claim_tokens" =>
          /\ claimed_at[last'.user] = {} => last'.result = "Ok"
          /\ \A t \in claimed_at[last'.user] :
                 (t # 0 /\ clock - t < 86400) =>
                     /\ last'.result = "ClaimTooSoon"
                     /\ UNCHANGED <<token_amount, vault_amount, user_claim>>
       ]_vars

=============================================================================
